---- MODULE Spec2Model ----
(***************************************************************************)
(* Model of src/model/models.py: the pre-activation Wide-ResNet family and *)
(* the embedding-head wrappers.  Modules are records that carry the layer  *)
(* hyper-parameters, the initializer that last wrote each parameter and,   *)
(* for the objects whose identity matters, an object id.  Tensors are      *)
(* modelled by their shapes; every layer computes its output shape the way *)
(* the numerical library does and raises on a shape it rejects.            *)
(***************************************************************************)
EXTENDS Integers, Sequences, FiniteSets, TLC

\* ------------------------------------------------------------------ bounds
MaxK == 5          \* width multipliers 1..MaxK
MaxDepth == 16     \* depths 0..MaxDepth
MaxClasses == 2    \* numbers of classes 1..MaxClasses
MaxEmb == 2        \* embedding dimensions 1..MaxEmb
MaxSize == 4       \* spatial sizes 1..MaxSize
MaxChan == 3       \* channel counts of a stand-alone block
MaxStride == 2     \* strides of a stand-alone block
MaxObjects == 10   \* object ids handed out before adapt() stops being called

Widths == 1..MaxK
Depths == 0..MaxDepth
Classes == 1..MaxClasses
EmbDims == 1..MaxEmb
DropRates == {0, 1}

\* the batch size of the module's own run: x = torch.randn(2, 3, 224, 224)
BatchSize == 2

\* --------------------------------------------------------------- tensors
Tensor(shape) == [ok |-> TRUE, shape |-> shape]
NoTensor == [ok |-> FALSE, shape |-> <<>>]

\* the element of a one-element set: Only({e(v) : v \in {d}}) is e(d) with d
\* computed once
Only(S) == CHOOSE v \in S : TRUE

Max2(a, b) == IF a >= b THEN a ELSE b

RECURSIVE Pow2(_)
Pow2(i) == IF i <= 0 THEN 1 ELSE 2 * Pow2(i - 1)

\* elementwise a + b with the library's broadcasting rule
TensorAdd(a, b) ==
    IF ~a.ok \/ ~b.ok \/ Len(a.shape) # Len(b.shape) THEN NoTensor
    ELSE IF \A d \in 1..Len(a.shape) :
                a.shape[d] = b.shape[d] \/ a.shape[d] = 1 \/ b.shape[d] = 1
         THEN Tensor([d \in 1..Len(a.shape) |-> Max2(a.shape[d], b.shape[d])])
         ELSE NoTensor

\* torch.mean(feat, dim=(2, 3)) on an [N, C, H, W] tensor
TorchMean23(t) ==
    IF ~t.ok \/ Len(t.shape) # 4 THEN NoTensor
    ELSE Tensor(<<t.shape[1], t.shape[2]>>)

\* ----------------------------------------------------- primitive modules
None == [type |-> "None"]
IsNone(m) == m.type = "None"

Conv2d(in_chan, out_chan, kernel_size, stride, padding) ==
    [type |-> "Conv2d", in_channels |-> in_chan, out_channels |-> out_chan,
     kernel_size |-> kernel_size, stride |-> stride, padding |-> padding,
     bias |-> "None", weight |-> "kaiming_uniform_", visits |-> 0]

BatchNorm2d(num_features) ==
    [type |-> "BatchNorm2d", num_features |-> num_features,
     weight |-> "ones_", bias |-> "zeros_", visits |-> 0]

LeakyReLU == [type |-> "LeakyReLU"]
ReLU == [type |-> "ReLU"]
Identity == [type |-> "Identity"]
Dropout(p) == [type |-> "Dropout", p |-> p]

Linear(id, in_features, out_features) ==
    [type |-> "Linear", id |-> id, in_features |-> in_features,
     out_features |-> out_features,
     weight |-> "kaiming_uniform_", bias |-> "uniform_", visits |-> 0]

Sequential(id, layers) == [type |-> "Sequential", id |-> id, layers |-> layers]

HasAttr(m, name) == name \in DOMAIN m

\* output size of a convolution along one spatial dimension
ConvOutSize(size, kernel_size, stride, padding) ==
    ((size + 2 * padding - kernel_size) \div stride) + 1

Conv2d_forward(m, t) ==
    IF ~t.ok \/ Len(t.shape) # 4 THEN NoTensor
    ELSE IF t.shape[2] # m.in_channels THEN NoTensor
    ELSE LET h == ConvOutSize(t.shape[3], m.kernel_size, m.stride, m.padding)
             w == ConvOutSize(t.shape[4], m.kernel_size, m.stride, m.padding)
         IN IF h < 1 \/ w < 1 THEN NoTensor
            ELSE Tensor(<<t.shape[1], m.out_channels, h, w>>)

BatchNorm2d_forward(m, t) ==
    IF ~t.ok \/ Len(t.shape) # 4 THEN NoTensor
    ELSE IF t.shape[2] # m.num_features THEN NoTensor ELSE t

Linear_forward(m, t) ==
    IF ~t.ok \/ Len(t.shape) < 1 THEN NoTensor
    ELSE IF t.shape[Len(t.shape)] # m.in_features THEN NoTensor
    ELSE Tensor([d \in 1..Len(t.shape) |->
                    IF d = Len(t.shape) THEN m.out_features ELSE t.shape[d]])

\* a head is a Linear, an Identity, or a Sequential of Linear and ReLU
RECURSIVE Layers_forward(_, _, _)
Layers_forward(layers, i, t) ==
    IF i > Len(layers) THEN t
    ELSE Layers_forward(layers, i + 1,
            IF layers[i].type = "Linear" THEN Linear_forward(layers[i], t)
            ELSE t)

Head_forward(m, t) ==
    IF m.type = "Linear" THEN Linear_forward(m, t)
    ELSE IF m.type = "Sequential" THEN Layers_forward(m.layers, 1, t)
    ELSE t

\* ------------------------------------------------------ BasicBlockPreAct
\* mutant: the projection is inserted only when the stride changes
BasicBlockPreAct_strideOnly(in_chan, out_chan, drop_rate, stride, pre_res_act) ==
    [type |-> "BasicBlockPreAct",
     bn1 |-> BatchNorm2d(in_chan),
     relu1 |-> LeakyReLU,
     conv1 |-> Conv2d(in_chan, out_chan, 3, stride, 1),
     bn2 |-> BatchNorm2d(out_chan),
     relu2 |-> LeakyReLU,
     dropout |-> IF drop_rate # 0 THEN Dropout(drop_rate) ELSE None,
     conv2 |-> Conv2d(out_chan, out_chan, 3, 1, 1),
     downsample |-> IF stride # 1
                    THEN Conv2d(in_chan, out_chan, 1, stride, 0)
                    ELSE None,
     pre_res_act |-> pre_res_act]

\* mutant: the projection is padded like the 3x3 convolutions
BasicBlockPreAct_paddedProjection(in_chan, out_chan, drop_rate, stride, pre_res_act) ==
    [type |-> "BasicBlockPreAct",
     bn1 |-> BatchNorm2d(in_chan),
     relu1 |-> LeakyReLU,
     conv1 |-> Conv2d(in_chan, out_chan, 3, stride, 1),
     bn2 |-> BatchNorm2d(out_chan),
     relu2 |-> LeakyReLU,
     dropout |-> IF drop_rate # 0 THEN Dropout(drop_rate) ELSE None,
     conv2 |-> Conv2d(out_chan, out_chan, 3, 1, 1),
     downsample |-> IF in_chan # out_chan \/ stride # 1
                    THEN Conv2d(in_chan, out_chan, 1, stride, 1)
                    ELSE None,
     pre_res_act |-> pre_res_act]

BasicBlockPreAct(in_chan, out_chan, drop_rate, stride, pre_res_act) ==
    [type |-> "BasicBlockPreAct",
     bn1 |-> BatchNorm2d(in_chan),
     relu1 |-> LeakyReLU,
     conv1 |-> Conv2d(in_chan, out_chan, 3, stride, 1),
     bn2 |-> BatchNorm2d(out_chan),
     relu2 |-> LeakyReLU,
     dropout |-> IF drop_rate # 0 THEN Dropout(drop_rate) ELSE None,
     conv2 |-> Conv2d(out_chan, out_chan, 3, 1, 1),
     downsample |-> IF in_chan # out_chan \/ stride # 1
                    THEN Conv2d(in_chan, out_chan, 1, stride, 0)
                    ELSE None,
     pre_res_act |-> pre_res_act]

\* forward of one block; the record keeps the two summands next to the sum
BasicBlockPreAct_forward(self, x) ==
    LET bn1 == BatchNorm2d_forward(self.bn1, x)
        act1 == bn1
        res1 == Conv2d_forward(self.conv1, act1)
        res2 == BatchNorm2d_forward(self.bn2, res1)
        residual == Conv2d_forward(self.conv2, res2)
        taken == IF self.pre_res_act THEN act1 ELSE x
        shortcut == IF ~IsNone(self.downsample)
                    THEN Conv2d_forward(self.downsample, taken)
                    ELSE taken
    IN [x |-> x,
        from |-> IF self.pre_res_act THEN "act1" ELSE "x",
        projected |-> ~IsNone(self.downsample),
        shortcut |-> shortcut,
        residual |-> residual,
        out |-> TensorAdd(shortcut, residual)]

\* nn.Sequential of blocks: the per-block records, in order
RECURSIVE Blocks_forward(_, _, _, _)
Blocks_forward(blocks, i, x, trace) ==
    IF i > Len(blocks) THEN trace
    ELSE Only({Blocks_forward(blocks, i + 1, r.out, Append(trace, r)) :
                  r \in {BasicBlockPreAct_forward(blocks[i], x)}})

\* --------------------------------------------------- WideResnetBackbone
\* mutant: the depth check accepts every even depth
DepthOK_even(n) == (n - 4) % 2 = 0

DepthOK(n) == (n - 4) % 6 = 0

n_layers(k) == <<16>> \o [i \in 1..3 |-> k * 16 * Pow2(i - 1)]

\* len(range(c)): a non-positive count gives the empty range
RangeLen(c) == IF c > 0 THEN c ELSE 0

\* mutant: the first block of a stage forgets the stage's stride
create_layer_noStride(in_chan, out_chan, bnum, stride, drop_rate, pre_res_act) ==
    <<BasicBlockPreAct(in_chan, out_chan, drop_rate, 1, pre_res_act)>>
    \o [i \in 1..RangeLen(bnum - 1) |->
            BasicBlockPreAct(out_chan, out_chan, drop_rate, 1, FALSE)]

create_layer(in_chan, out_chan, bnum, stride, drop_rate, pre_res_act) ==
    <<BasicBlockPreAct(in_chan, out_chan, drop_rate, stride, pre_res_act)>>
    \o [i \in 1..RangeLen(bnum - 1) |->
            BasicBlockPreAct(out_chan, out_chan, drop_rate, 1, FALSE)]

\* one visit of init_weight's loop body
InitModule(m) ==
    IF m.type = "Conv2d"
    THEN [m EXCEPT !.weight = "kaiming_normal_", !.visits = @ + 1]
    ELSE IF m.type = "BatchNorm2d"
    THEN [m EXCEPT !.weight = "fill_1", !.bias = "zeros_", !.visits = @ + 1]
    ELSE IF m.type = "Linear"
    THEN [m EXCEPT !.bias = "zeros_", !.visits = @ + 1]
    ELSE m

InitBlock(b) ==
    [b EXCEPT !.bn1 = InitModule(@), !.conv1 = InitModule(@),
              !.bn2 = InitModule(@), !.conv2 = InitModule(@),
              !.downsample = InitModule(@)]

InitLayer(blocks) == [i \in 1..Len(blocks) |-> InitBlock(blocks[i])]

\* init_weight walks self.modules(): every descendant of the backbone
WideResnetBackbone_init_weight(self) ==
    [self EXCEPT !.conv1 = InitModule(@),
                 !.layer1 = InitLayer(@),
                 !.layer2 = InitLayer(@),
                 !.layer3 = InitLayer(@),
                 !.bn_last = InitModule(@)]

BackboneAttrs == <<"conv1", "layer1", "layer2", "layer3", "bn_last", "relu_last">>

\* the constructor: the exception raised (or "none"), the object, the next
\* free object id and the attributes registered when the constructor exits
WideResnetBackbone(k, n, drop_rate, id) ==
    IF ~DepthOK(n)
    THEN [exc |-> "AssertionError", obj |-> None, next |-> id + 1, built |-> <<>>]
    ELSE LET n_blocks == (n - 4) \div 6
             nl == n_layers(k)
             self == [type |-> "WideResnetBackbone", id |-> id, k |-> k, n |-> n,
                      conv1 |-> Conv2d(3, nl[1], 3, 1, 1),
                      layer1 |-> create_layer(nl[1], nl[2], n_blocks, 1, drop_rate, TRUE),
                      layer2 |-> create_layer(nl[2], nl[3], n_blocks, 2, drop_rate, FALSE),
                      layer3 |-> create_layer(nl[3], nl[4], n_blocks, 2, drop_rate, FALSE),
                      bn_last |-> BatchNorm2d(nl[4]),
                      relu_last |-> LeakyReLU]
         IN [exc |-> "none", obj |-> WideResnetBackbone_init_weight(self),
             next |-> id + 1, built |-> BackboneAttrs]

\* forward: (feat2, feat4) and the per-block records of the three stages
LastOut(trace) == trace[Len(trace)].out

WideResnetBackbone_forward(self, x) ==
    Only({Only({Only({
        [ret |-> <<LastOut(t2), BatchNorm2d_forward(self.bn_last, LastOut(t3))>>,
         blocks |-> t1 \o t2 \o t3] :
            t3 \in {Blocks_forward(self.layer3, 1, LastOut(t2), <<>>)}}) :
            t2 \in {Blocks_forward(self.layer2, 1, LastOut(t1), <<>>)}}) :
            t1 \in {Blocks_forward(self.layer1, 1, Conv2d_forward(self.conv1, x), <<>>)}})

\* ------------------------------------------------------------ WideResnet
\* mutant: the two-layer head starts above k = 4
WideResnet_classifier_above4(n_classes, k, id) ==
    IF k <= 4
    THEN [obj |-> Linear(id, 64 * k, n_classes), next |-> id + 1]
    ELSE LET num_ftrs == 64 * k
         IN [obj |-> Sequential(id, <<Linear(id + 1, num_ftrs, num_ftrs \div 2),
                                      ReLU,
                                      Linear(id + 2, num_ftrs \div 2, n_classes)>>),
             next |-> id + 3]

\* the classifier built by WideResnet.__init__ and the next free object id
WideResnet_classifier(n_classes, k, id) ==
    IF k < 4
    THEN [obj |-> Linear(id, 64 * k, n_classes), next |-> id + 1]
    ELSE LET num_ftrs == 64 * k
         IN [obj |-> Sequential(id, <<Linear(id + 1, num_ftrs, num_ftrs \div 2),
                                      ReLU,
                                      Linear(id + 2, num_ftrs \div 2, n_classes)>>),
             next |-> id + 3]

WideResnet(n_classes, k, n, id) ==
    LET bb == WideResnetBackbone(k, n, 0, id + 1)
    IN IF bb.exc # "none"
       THEN [exc |-> bb.exc, obj |-> None, next |-> bb.next, built |-> bb.built]
       ELSE LET cl == WideResnet_classifier(n_classes, k, bb.next)
            IN [exc |-> "none",
                obj |-> [type |-> "WideResnet", id |-> id, n_layers |-> n, k |-> k,
                         backbone |-> bb.obj, classifier |-> cl.obj],
                next |-> cl.next, built |-> bb.built]

\* mutant: the pooled features are taken from the first returned feature map
WideResnet_forward_first(self, x) ==
    Only({LET pooled == TorchMean23(bb.ret[1])
          IN [ret |-> <<Head_forward(self.classifier, pooled)>>,
              pooled |-> pooled, blocks |-> bb.blocks] :
            bb \in {WideResnetBackbone_forward(self.backbone, x)}})

WideResnet_forward(self, x) ==
    Only({LET pooled == TorchMean23(bb.ret[Len(bb.ret)])
          IN [ret |-> <<Head_forward(self.classifier, pooled)>>,
              pooled |-> pooled, blocks |-> bb.blocks] :
            bb \in {WideResnetBackbone_forward(self.backbone, x)}})

\* ------------------------------------------- torchvision feature extractor
\* models.resnet50 / models.resnet18: the final fc maps the pooled features
\* (2048 resp. 512 wide) to 1000 classes
TorchvisionResNet(arch, pretrained, id) ==
    [type |-> "ResNet", id |-> id, arch |-> arch, pretrained |-> pretrained,
     fc |-> Linear(id + 1, IF arch = "resnet50" THEN 2048 ELSE 512, 1000)]

TorchvisionResNet_forward(self, x) ==
    IF ~x.ok \/ Len(x.shape) # 4 THEN NoTensor
    ELSE IF x.shape[2] # 3 THEN NoTensor
    ELSE Head_forward(self.fc,
            Tensor(<<x.shape[1], IF self.arch = "resnet50" THEN 2048 ELSE 512>>))

\* ------------------------------------------------- embedding-head models
ResNet50WithEmbeddingHead(num_classes, emb_dim, pretrained, id) ==
    LET model_resnet == TorchvisionResNet("resnet50", pretrained, id + 1)
        num_ftrs == model_resnet.fc.in_features
    IN [exc |-> "none",
        obj |-> [type |-> "ResNet50WithEmbeddingHead", id |-> id,
                 model_resnet |-> [model_resnet EXCEPT !.fc = Identity],
                 num_ftrs |-> num_ftrs,
                 fc_classes |-> Linear(id + 3, num_ftrs, num_classes),
                 fc_emb |-> Linear(id + 4, num_ftrs, emb_dim)],
        next |-> id + 5, built |-> <<>>]

ResNet18WithEmbeddingHead(num_classes, emb_dim, pretrained, id) ==
    LET model_resnet == TorchvisionResNet("resnet18", pretrained, id + 1)
        num_ftrs == model_resnet.fc.in_features
    IN [exc |-> "none",
        obj |-> [type |-> "ResNet18WithEmbeddingHead", id |-> id,
                 model_resnet |-> [model_resnet EXCEPT !.fc = Identity],
                 num_ftrs |-> num_ftrs,
                 fc_classes |-> Linear(id + 3, num_ftrs, num_classes),
                 fc_emb |-> Sequential(id + 4, <<Linear(id + 5, num_ftrs, 2048),
                                                 ReLU,
                                                 Linear(id + 6, 2048, emb_dim)>>)],
        next |-> id + 7, built |-> <<>>]

WideResnetWithEmbeddingHead(num_classes, k, n, emb_dim, id) ==
    LET base == WideResnet(num_classes, k, n, id + 1)
    IN IF base.exc # "none"
       THEN [exc |-> base.exc, obj |-> None, next |-> base.next, built |-> base.built]
       ELSE IF ~HasAttr(base.obj.classifier, "in_features")
       THEN [exc |-> "AttributeError", obj |-> None, next |-> base.next,
             built |-> base.built]
       ELSE LET num_ftrs == base.obj.classifier.in_features
            IN [exc |-> "none",
                obj |-> [type |-> "WideResnetWithEmbeddingHead", id |-> id,
                         model_base |-> [base.obj EXCEPT !.classifier = Identity],
                         k |-> k,
                         num_ftrs |-> num_ftrs,
                         fc_classes |-> Linear(base.next, num_ftrs, num_classes),
                         fc_emb |-> Sequential(base.next + 1,
                                       <<Linear(base.next + 2, num_ftrs, 2048),
                                         ReLU,
                                         Linear(base.next + 3, 2048, emb_dim)>>)],
                next |-> base.next + 4, built |-> base.built]

\* the feature extractor wrapped by an embedding-head model
FeatureExtractor(self) ==
    IF self.type = "WideResnetWithEmbeddingHead" THEN self.model_base
    ELSE self.model_resnet

\* forward of the three embedding-head models: (out1, out2, x)
EmbeddingHead_forward(self, inp) ==
    Only({LET x == base.ret[1]
              out1 == Head_forward(self.fc_classes, x)
              out2 == Head_forward(self.fc_emb, x)
          IN [ret |-> <<out1, out2, x>>, pooled |-> base.pooled,
              blocks |-> base.blocks] :
            base \in {IF self.type = "WideResnetWithEmbeddingHead"
                      THEN WideResnet_forward(self.model_base, inp)
                      ELSE [ret |-> <<TorchvisionResNet_forward(self.model_resnet, inp)>>,
                            pooled |-> NoTensor, blocks |-> <<>>]}})

\* mutant: adapt rebuilds the embedding head as well
EmbeddingHead_adapt_both(self, num_classes, id) ==
    [self EXCEPT !.fc_classes = Linear(id, self.num_ftrs, num_classes),
                 !.fc_emb = [@ EXCEPT !.id = id + 1]]

\* adapt of the three embedding-head models (the same statement in each)
EmbeddingHead_adapt(self, num_classes, id) ==
    [self EXCEPT !.fc_classes = Linear(id, self.num_ftrs, num_classes)]

\* ----------------------------------------------------------------- state
\* net     the model object bound to `net`, None before/without one
\* args    the class and arguments of the constructor call
\* err     the exception raised by the last call, "none" if it returned
\* built   backbone attributes registered when the constructor exited
\* call    the last call: construct, forward(x) or adapt(num_classes)
\* out     what the last forward returned, with its per-block records
\* nextId  the next free object id
VARIABLES net, args, err, built, call, out, nextId

vars == <<net, args, err, built, call, out, nextId>>

NoOut == [ret |-> <<>>, pooled |-> NoTensor, blocks |-> <<>>]

EmbeddingHeadTypes ==
    {"ResNet50WithEmbeddingHead", "ResNet18WithEmbeddingHead",
     "WideResnetWithEmbeddingHead"}

Init ==
    /\ net = None
    /\ args = [cls |-> "none"]
    /\ err = "none"
    /\ built = <<>>
    /\ call = [op |-> "none"]
    /\ out = NoOut
    /\ nextId = 1

\* the effect of `net = Cls(...)` given the constructor's result
Bind(a, r) ==
    /\ call.op = "none"
    /\ net' = r.obj
    /\ args' = a
    /\ err' = r.exc
    /\ built' = r.built
    /\ call' = [op |-> "construct"]
    /\ out' = NoOut
    /\ nextId' = r.next

NewBasicBlockPreAct ==
    \E in_chan \in 1..MaxChan, out_chan \in 1..MaxChan, drop_rate \in DropRates,
       stride \in 1..MaxStride, pre_res_act \in BOOLEAN :
        Bind([cls |-> "BasicBlockPreAct", in_chan |-> in_chan, out_chan |-> out_chan,
              drop_rate |-> drop_rate, stride |-> stride, pre_res_act |-> pre_res_act],
             [exc |-> "none",
              obj |-> BasicBlockPreAct(in_chan, out_chan, drop_rate, stride, pre_res_act),
              next |-> nextId + 1, built |-> <<>>])

NewWideResnetBackbone ==
    \E k \in Widths, n \in Depths, drop_rate \in DropRates :
        Bind([cls |-> "WideResnetBackbone", k |-> k, n |-> n, drop_rate |-> drop_rate],
             WideResnetBackbone(k, n, drop_rate, nextId))

NewWideResnet ==
    \E n_classes \in Classes, k \in Widths, n \in Depths :
        Bind([cls |-> "WideResnet", num_classes |-> n_classes, k |-> k, n |-> n],
             WideResnet(n_classes, k, n, nextId))

NewResNet50WithEmbeddingHead ==
    \E num_classes \in Classes, emb_dim \in EmbDims, pretrained \in BOOLEAN :
        Bind([cls |-> "ResNet50WithEmbeddingHead", num_classes |-> num_classes,
              emb_dim |-> emb_dim, pretrained |-> pretrained],
             ResNet50WithEmbeddingHead(num_classes, emb_dim, pretrained, nextId))

NewResNet18WithEmbeddingHead ==
    \E num_classes \in Classes, emb_dim \in EmbDims, pretrained \in BOOLEAN :
        Bind([cls |-> "ResNet18WithEmbeddingHead", num_classes |-> num_classes,
              emb_dim |-> emb_dim, pretrained |-> pretrained],
             ResNet18WithEmbeddingHead(num_classes, emb_dim, pretrained, nextId))

NewWideResnetWithEmbeddingHead ==
    \E num_classes \in Classes, k \in Widths, n \in Depths, emb_dim \in EmbDims :
        Bind([cls |-> "WideResnetWithEmbeddingHead", num_classes |-> num_classes,
              k |-> k, n |-> n, emb_dim |-> emb_dim],
             WideResnetWithEmbeddingHead(num_classes, k, n, emb_dim, nextId))

\* image batches [N, 3, H, W]
Inputs ==
    {<<BatchSize, 3, h, w>> : h \in 1..MaxSize, w \in 1..MaxSize}

AllOk(ret) == \A i \in 1..Len(ret) : ret[i].ok

\* the effect of `net(x)` given what forward computes
Return(x, r) ==
    /\ call' = [op |-> "forward", x |-> x]
    /\ IF AllOk(r.ret)
       THEN err' = "none" /\ out' = r
       ELSE err' = "RuntimeError" /\ out' = NoOut
    /\ UNCHANGED <<net, args, built, nextId>>

ForwardBasicBlockPreAct ==
    /\ net.type = "BasicBlockPreAct"
    /\ \E x \in Inputs : \E r \in {BasicBlockPreAct_forward(net, Tensor(x))} :
        Return(x, [ret |-> <<r.out>>, pooled |-> NoTensor, blocks |-> <<r>>])

ForwardWideResnetBackbone ==
    /\ net.type = "WideResnetBackbone"
    /\ \E x \in Inputs : \E r \in {WideResnetBackbone_forward(net, Tensor(x))} :
        Return(x, [ret |-> r.ret, pooled |-> NoTensor, blocks |-> r.blocks])

ForwardWideResnet ==
    /\ net.type = "WideResnet"
    /\ \E x \in Inputs : \E r \in {WideResnet_forward(net, Tensor(x))} :
        Return(x, r)

ForwardEmbeddingHead ==
    /\ net.type \in EmbeddingHeadTypes
    /\ \E x \in Inputs : \E r \in {EmbeddingHead_forward(net, Tensor(x))} :
        Return(x, r)

Adapt ==
    /\ net.type \in EmbeddingHeadTypes
    /\ nextId <= MaxObjects
    /\ \E num_classes \in Classes :
        /\ net' = EmbeddingHead_adapt(net, num_classes, nextId)
        /\ call' = [op |-> "adapt", num_classes |-> num_classes]
    /\ nextId' = nextId + 1
    /\ err' = "none"
    /\ out' = NoOut
    /\ UNCHANGED <<args, built>>

Next ==
    \/ NewBasicBlockPreAct
    \/ NewWideResnetBackbone
    \/ NewWideResnet
    \/ NewResNet50WithEmbeddingHead
    \/ NewResNet18WithEmbeddingHead
    \/ NewWideResnetWithEmbeddingHead
    \/ ForwardBasicBlockPreAct
    \/ ForwardWideResnetBackbone
    \/ ForwardWideResnet
    \/ ForwardEmbeddingHead
    \/ Adapt

Spec == Init /\ [][Next]_vars

\* ------------------------------------------------- views used by the claims
WideTypes == {"WideResnetBackbone", "WideResnet", "WideResnetWithEmbeddingHead"}

\* the backbone inside a Wide-ResNet model
BackboneOf(m) ==
    IF m.type = "WideResnetBackbone" THEN m
    ELSE IF m.type = "WideResnet" THEN m.backbone
    ELSE m.model_base.backbone

\* the blocks of a model, in forward order
BlocksOf(m) ==
    IF m.type = "BasicBlockPreAct" THEN <<m>>
    ELSE IF m.type \in WideTypes
    THEN BackboneOf(m).layer1 \o BackboneOf(m).layer2 \o BackboneOf(m).layer3
    ELSE <<>>

Stages(bb) == <<bb.layer1, bb.layer2, bb.layer3>>

\* the parameterised modules reached by modules() from a block / head / model
ModulesOfBlock(b) ==
    {b.bn1, b.conv1, b.bn2, b.conv2} \cup
    (IF IsNone(b.downsample) THEN {} ELSE {b.downsample})

ModulesOfHead(h) ==
    IF h.type = "Linear" THEN {h}
    ELSE IF h.type = "Sequential"
    THEN {h.layers[i] : i \in {j \in 1..Len(h.layers) : h.layers[j].type = "Linear"}}
    ELSE {}

ModulesOfBackbone(bb) ==
    {bb.conv1, bb.bn_last} \cup
    UNION {ModulesOfBlock(BlocksOf(bb)[i]) : i \in 1..Len(BlocksOf(bb))}

ModulesOf(m) ==
    IF m.type = "WideResnetBackbone" THEN ModulesOfBackbone(m)
    ELSE IF m.type = "WideResnet"
    THEN ModulesOfBackbone(m.backbone) \cup ModulesOfHead(m.classifier)
    ELSE ModulesOfBackbone(m.model_base.backbone)
         \cup ModulesOfHead(m.model_base.classifier)
         \cup ModulesOfHead(m.fc_classes) \cup ModulesOfHead(m.fc_emb)

HeadIn(h) == IF h.type = "Linear" THEN h.in_features ELSE h.layers[1].in_features
HeadOut(h) ==
    IF h.type = "Linear" THEN h.out_features
    ELSE h.layers[Len(h.layers)].out_features

CeilDiv(a, b) == (a + b - 1) \div b

Forwarded == call.op = "forward"
BatchN == call.x[1]
InH == call.x[3]
InW == call.x[4]

\* ---------------------------------------------------------------- claims
\* C1: constructing a WideResnetBackbone or a WideResnet with depth n
\* succeeds iff (n - 4) mod 6 = 0, for every k >= 1; a depth that fails the
\* check raises (also inside WideResnetWithEmbeddingHead) before any layer
\* of the backbone has been built.
C1_DepthCheck ==
    args.cls \in WideTypes =>
        /\ args.cls \in {"WideResnetBackbone", "WideResnet"} =>
              (((args.n - 4) % 6 = 0) <=> (net.type = args.cls /\ built = BackboneAttrs))
        /\ ((args.n - 4) % 6 # 0) =>
              (err = "AssertionError" /\ IsNone(net) /\ built = <<>>)

C1_Witness ==
    /\ args.cls = "WideResnet" /\ args.k >= 4 /\ args.n = 15
    /\ err = "AssertionError" /\ built = <<>>

\* C2: every embedding-head model, WideResnetWithEmbeddingHead for every
\* k >= 1 and every valid depth included, can be constructed, and its forward
\* on [N,3,H,W] returns (logits, embedding, pooled features) of shapes
\* [N, num_classes], [N, emb_dim] and [N, num_ftrs].
C2_EmbeddingHeadAlwaysBuilt ==
    (/\ args.cls \in EmbeddingHeadTypes
     /\ args.cls = "WideResnetWithEmbeddingHead" => (args.n - 4) % 6 = 0)
    => /\ net.type = args.cls
       /\ Forwarded =>
            /\ err = "none"
            /\ Len(out.ret) = 3
            /\ out.ret[1].shape = <<BatchN, HeadOut(net.fc_classes)>>
            /\ out.ret[2].shape = <<BatchN, args.emb_dim>>
            /\ out.ret[3].shape = <<BatchN, net.num_ftrs>>

\* C3: for every k >= 1 and every valid depth, WideResnet.forward on
\* [N,3,H,W] pools a feature vector of exactly 64k entries and returns logits
\* of shape [N, n_classes] from a classifier mapping 64k inputs to n_classes.
C3_LogitsShape ==
    (net.type = "WideResnet" /\ Forwarded) =>
        /\ err = "none"
        /\ out.pooled = Tensor(<<BatchN, 64 * args.k>>)
        /\ out.ret = <<Tensor(<<BatchN, args.num_classes>>)>>
        /\ HeadIn(net.classifier) = 64 * args.k
        /\ HeadOut(net.classifier) = args.num_classes

C3_Witness ==
    /\ net.type = "WideResnet" /\ Forwarded /\ err = "none"
    /\ args.k = 5 /\ args.n = 16 /\ InH = 3 /\ InW = 4

\* C4: on every embedding-head model adapt(m) changes only the logits head:
\* each adapt sets the logits width to its argument and no other call changes
\* it, while the feature extractor, fc_emb (the same objects), num_ftrs and
\* the embedding shape [N, emb_dim] stay as constructed.
C4_AdaptStep ==
    net.type \in EmbeddingHeadTypes =>
        /\ net'.type = net.type
        /\ FeatureExtractor(net') = FeatureExtractor(net)
        /\ net'.fc_emb = net.fc_emb
        /\ net'.num_ftrs = net.num_ftrs
        /\ IF call'.op = "adapt"
           THEN /\ HeadOut(net'.fc_classes) = call'.num_classes
                /\ HeadIn(net'.fc_classes) = net.num_ftrs
           ELSE net'.fc_classes = net.fc_classes

C4_EmbeddingShape ==
    (net.type \in EmbeddingHeadTypes /\ Forwarded /\ err = "none") =>
        /\ out.ret[1].shape = <<BatchN, HeadOut(net.fc_classes)>>
        /\ out.ret[2].shape = <<BatchN, args.emb_dim>>
        /\ HeadOut(net.fc_emb) = args.emb_dim

C4_AdaptOnlyLogitsHead == [][C4_AdaptStep]_vars /\ []C4_EmbeddingShape

C4_Witness ==
    /\ net.type = "WideResnetWithEmbeddingHead" /\ Forwarded /\ err = "none"
    /\ HeadOut(net.fc_classes) # args.num_classes
    /\ nextId > MaxObjects

\* C5: for every k >= 1, every valid depth and every [N,3,H,W] with H and W
\* divisible by 4, the backbone returns maps of shape [N,32k,H/2,W/2] and
\* [N,64k,H/4,W/4]; the channel counts 32k and 64k hold for every H, W.
C5_BackboneShapes ==
    (net.type = "WideResnetBackbone" /\ Forwarded) =>
        /\ err = "none"
        /\ Len(out.ret) = 2
        /\ out.ret[1].shape[2] = 32 * args.k
        /\ out.ret[2].shape[2] = 64 * args.k
        /\ (InH % 4 = 0 /\ InW % 4 = 0) =>
              /\ out.ret[1].shape = <<BatchN, 32 * args.k, InH \div 2, InW \div 2>>
              /\ out.ret[2].shape = <<BatchN, 64 * args.k, InH \div 4, InW \div 4>>

C5_Witness ==
    /\ net.type = "WideResnetBackbone" /\ Forwarded /\ err = "none"
    /\ args.k = 3 /\ InH = 4 /\ InW = 4

\* C6: for every depth accepted by the depth check, n = 4 included, each of
\* the three stages holds exactly (n - 4) / 6 blocks, with stage widths
\* 16 -> 16k, 16k -> 32k and 32k -> 64k.
C6_BlocksPerStage ==
    net.type = "WideResnetBackbone" =>
        /\ \A s \in 1..3 : Len(Stages(net)[s]) = (args.n - 4) \div 6
        /\ \A s \in 1..3 :
              /\ Stages(net)[s][1].conv1.in_channels
                    = (IF s = 1 THEN 16 ELSE 16 * args.k * Pow2(s - 2))
              /\ \A i \in 1..Len(Stages(net)[s]) :
                    Stages(net)[s][i].conv2.out_channels = 16 * args.k * Pow2(s - 1)

\* C7: after construction of a WideResnetBackbone, WideResnet or
\* WideResnetWithEmbeddingHead the weight initialization has visited every
\* layer exactly once: every normalization layer has unit scale and zero
\* bias and every linear layer has a zero bias.
C7_InitAppliedOnce ==
    net.type \in WideTypes =>
        \A m \in ModulesOf(net) :
            /\ m.visits = 1
            /\ m.type = "BatchNorm2d" =>
                  (m.weight \in {"ones_", "fill_1"} /\ m.bias = "zeros_")
            /\ m.type = "Linear" => m.bias = "zeros_"

\* C8: a block's shortcut is the unprojected input when input and output
\* channel counts are equal and the stride is 1, and goes through a 1x1
\* projection (in -> out channels, the block's stride) exactly when channels
\* or stride change; in a backbone only the first block of a stage can carry
\* a projection and the first block of stage 1 carries one iff k > 1.
C8_BlockShortcut(b) ==
    LET changes == b.conv1.in_channels # b.conv1.out_channels \/ b.conv1.stride # 1
    IN /\ ~IsNone(b.downsample) <=> changes
       /\ ~IsNone(b.downsample) =>
             /\ b.downsample.type = "Conv2d"
             /\ b.downsample.kernel_size = 1
             /\ b.downsample.in_channels = b.conv1.in_channels
             /\ b.downsample.out_channels = b.conv1.out_channels
             /\ b.downsample.stride = b.conv1.stride

C8_ShortcutProjection ==
    /\ \A i \in 1..Len(BlocksOf(net)) : C8_BlockShortcut(BlocksOf(net)[i])
    /\ (Forwarded /\ err = "none") =>
          \A i \in 1..Len(out.blocks) :
              /\ out.blocks[i].projected <=> ~IsNone(BlocksOf(net)[i].downsample)
              /\ ~out.blocks[i].projected => out.blocks[i].shortcut = out.blocks[i].x
    /\ net.type \in WideTypes =>
          /\ \A s \in 1..3 : \A i \in 2..Len(Stages(BackboneOf(net))[s]) :
                IsNone(Stages(BackboneOf(net))[s][i].downsample)
          /\ ~IsNone(BackboneOf(net).layer1[1].downsample) <=> args.k > 1
          /\ ~IsNone(BackboneOf(net).layer2[1].downsample)
          /\ ~IsNone(BackboneOf(net).layer3[1].downsample)

C8_Witness ==
    /\ net.type = "WideResnetBackbone" /\ Forwarded /\ err = "none"
    /\ args.k = 1 /\ args.n = 16
    /\ ~out.blocks[1].projected /\ out.blocks[1].from = "act1"
    /\ out.blocks[3].projected

\* C9: the classification head of WideResnet(n_classes, k, n) is one linear
\* layer 64k -> n_classes when k < 4 and 64k -> 32k -> nonlinearity ->
\* n_classes when k >= 4; its input width is the backbone's final channel
\* count 64k.
C9_ClassifierHead ==
    net.type = "WideResnet" =>
        /\ net.backbone.bn_last.num_features = 64 * args.k
        /\ HeadIn(net.classifier) = net.backbone.bn_last.num_features
        /\ IF args.k < 4
           THEN /\ net.classifier.type = "Linear"
                /\ net.classifier.in_features = 64 * args.k
                /\ net.classifier.out_features = args.num_classes
           ELSE /\ net.classifier.type = "Sequential"
                /\ Len(net.classifier.layers) = 3
                /\ net.classifier.layers[1].type = "Linear"
                /\ net.classifier.layers[1].in_features = 64 * args.k
                /\ net.classifier.layers[1].out_features = 32 * args.k
                /\ net.classifier.layers[2].type = "ReLU"
                /\ net.classifier.layers[3].type = "Linear"
                /\ net.classifier.layers[3].in_features = 32 * args.k
                /\ net.classifier.layers[3].out_features = args.num_classes

C9_Witness ==
    net.type = "WideResnet" /\ args.k = 4 /\ net.classifier.type = "Sequential"

\* C10: in every constructed backbone and for every input with H, W >= 1,
\* each block's shortcut and residual have the same shape
\* [N, out_chan, ceil(H_in/stride), ceil(W_in/stride)], so their sum is
\* defined, and each block's output channel count is the next block's input
\* channel count (stem 16 -> stage 1, stage 3 -> final normalization 64k).
C10_BlockShapes(b, r) ==
    LET shape == <<r.x.shape[1], b.conv1.out_channels,
                   CeilDiv(r.x.shape[3], b.conv1.stride),
                   CeilDiv(r.x.shape[4], b.conv1.stride)>>
    IN /\ r.shortcut = Tensor(shape)
       /\ r.residual = Tensor(shape)
       /\ r.out = Tensor(shape)

C10_ChannelChain(bb) ==
    LET bs == BlocksOf(bb)
    IN /\ bb.conv1.out_channels = 16
       /\ bs[1].bn1.num_features = bb.conv1.out_channels
       /\ \A i \in 1..Len(bs) :
             /\ bs[i].conv1.in_channels = bs[i].bn1.num_features
             /\ bs[i].bn2.num_features = bs[i].conv1.out_channels
             /\ bs[i].conv2.in_channels = bs[i].conv1.out_channels
             /\ bs[i].conv2.out_channels = bs[i].conv1.out_channels
       /\ \A i \in 1..(Len(bs) - 1) :
             bs[i + 1].bn1.num_features = bs[i].conv2.out_channels
       /\ bb.bn_last.num_features = bs[Len(bs)].conv2.out_channels
       /\ bb.bn_last.num_features = 64 * bb.k

C10_ResidualSumDefined ==
    net.type \in WideTypes =>
        /\ C10_ChannelChain(BackboneOf(net))
        /\ Forwarded =>
              /\ err = "none"
              /\ Len(out.blocks) = Len(BlocksOf(net))
              /\ \A i \in 1..Len(out.blocks) :
                    C10_BlockShapes(BlocksOf(net)[i], out.blocks[i])

C10_Witness ==
    /\ net.type = "WideResnetBackbone" /\ Forwarded /\ err = "none"
    /\ args.k = 2 /\ args.n = 16 /\ InH = 3 /\ InW = 1
    /\ Len(out.blocks) = 6

====
